---- MODULE Spec2Model ----
(***************************************************************************)
(* A model of directory-control.py: the tree builder                       *)
(* (build_tree_from_nodes, resolve_collision), the line parser             *)
(* (parse_line_content, sanitize_name, identify_nodes) and the tree        *)
(* serializer (generate_tree_string).                                      *)
(*                                                                         *)
(* Paths are sequences of names below the working root; the root itself is *)
(* the empty sequence.  A filesystem is a function from the paths that     *)
(* exist to what is there.                                                 *)
(***************************************************************************)
EXTENDS Integers, Sequences, FiniteSets, TLC

VARIABLES
    nodes,          \* build_tree_from_nodes: the node list it is called with
    fs,             \* the filesystem below the working root
    path_stack,     \* build_tree_from_nodes: path_stack
    stats,          \* build_tree_from_nodes: stats
    i,              \* number of nodes the loop has processed in this run
    current_parent, \* build_tree_from_nodes: current_parent of the last node
    target_path,    \* build_tree_from_nodes: target_path of the last node
    targets,        \* the target_path of each node processed in this run
    log,            \* the log_action calls so far, in order
    run,            \* 1: first run over the list, 2: a second run over it
    pre,            \* the filesystem before the first run
    fs1,            \* the filesystem when the second run started
    lines,          \* identify_nodes: the lines it is called with
    lpos,           \* identify_nodes: lines the first loop has taken
    parsed,         \* identify_nodes: (name, indent) parse_line_content gave last
    inodes,         \* identify_nodes: nodes
    tpos,           \* identify_nodes: nodes the second loop has typed
    sfs,            \* the directory tree generate_tree_string walks
    denied,         \* the directories of sfs os.listdir raises OSError on
    ignore_patterns,\* generate_tree_string: ignore_patterns
    frames,         \* the activations of generate_tree_string, outermost first
    output,         \* the lines written so far, in order
    sstats,         \* generate_tree_string: stats
    sphase          \* "idle", "walking" or "done"

buildVars == <<nodes, fs, path_stack, stats, i, current_parent, target_path,
               targets, log, run, pre, fs1>>

parseVars == <<lines, lpos, parsed, inodes, tpos>>

serVars == <<sfs, denied, ignore_patterns, frames, output, sstats, sphase>>

vars == <<buildVars, parseVars, serVars>>

----------------------------------------------------------------------------
(* Bounds *)

MaxNodes == 3
MaxLineLen == 4
MaxDepth == 4

----------------------------------------------------------------------------
(* Names.  A name is stem + "_c" for each counter c of n + ext; this is    *)
(* what os.path.splitext and resolve_collision's f"{base}_{counter}{ext}"  *)
(* see of a name whose stem holds no dot.                                  *)

Nm(stem, ext) == [stem |-> stem, n |-> <<>>, ext |-> ext]

ReportTxt == Nm("report", ".txt")
Src       == Nm("src", "")
ProjCap   == Nm("Proj", "")

\* str.lower() on the names of the model
Lower(name) ==
    [name EXCEPT !.stem = IF @ = "Proj" THEN "proj" ELSE @]

\* os.getcwd() and its basename
root_path == <<>>
root_dir_name == Nm("proj", "")

----------------------------------------------------------------------------
(* The filesystem *)

Dir == [kind |-> "dir"]
File(content) == [kind |-> "file", content |-> content]

\* the content open(target_path, 'w').write(f"# Placeholder for {name}") leaves
Placeholder(name) == File(<<"placeholder", name>>)

\* os.path.exists
Exists(f, p) == p = root_path \/ p \in DOMAIN f

\* os.path.isfile
IsFile(f, p) == p \in DOMAIN f /\ f[p].kind = "file"

\* os.path.isdir
IsDir(f, p) == p = root_path \/ (p \in DOMAIN f /\ f[p].kind = "dir")

\* os.path.dirname
DirName(p) == SubSeq(p, 1, Len(p) - 1)

\* os.path.join(current_parent, name)
Join(parent, name) == Append(parent, name)

Prefixes(p) == {SubSeq(p, 1, k) : k \in 1..Len(p)}

\* f with path p set to entry e
Put(f, p, e) == [q \in DOMAIN f \cup {p} |-> IF q = p THEN e ELSE f[q]]

\* f without path p
Remove(f, p) == [q \in DOMAIN f \ {p} |-> f[q]]

\* os.makedirs(p, exist_ok=True) raises when a component of p is a file
MakeDirsOk(f, p) == \A q \in Prefixes(p) : ~IsFile(f, q)

\* os.makedirs(p, exist_ok=True): every missing component becomes a directory
MakeDirs(f, p) ==
    [q \in DOMAIN f \cup Prefixes(p) |-> IF q \in DOMAIN f THEN f[q] ELSE Dir]

\* open(p, 'w') raises unless p's directory exists and p is no directory
WriteOk(f, p) == IsDir(f, DirName(p)) /\ ~IsDir(f, p)

\* shutil.move(src, dst): into dst when dst is a directory, else onto dst
MoveDst(f, src, dst) ==
    IF IsDir(f, dst) THEN Join(dst, src[Len(src)]) ELSE dst

\* shutil.move raises when the real destination exists inside a directory
\* dst, or when its directory is missing
MoveOk(f, src, dst) ==
    /\ IsDir(f, DirName(MoveDst(f, src, dst)))
    /\ ~IsDir(f, MoveDst(f, src, dst))
    /\ (IsDir(f, dst) => ~Exists(f, MoveDst(f, src, dst)))

\* shutil.move: os.rename(src, real_dst)
Move(f, src, dst) == Put(Remove(f, src), MoveDst(f, src, dst), f[src])

----------------------------------------------------------------------------
(* resolve_collision *)

\* f"{base}_{counter}{ext}" with base, ext = os.path.splitext(target_path)
Suffixed(p, counter) ==
    [p EXCEPT ![Len(p)] = [@ EXCEPT !.n = Append(@, counter)]]

\* the while loop: the first counter from 1 whose path does not exist
FirstFree(f, p) ==
    CHOOSE c \in 1..(Cardinality(DOMAIN f) + 1) :
        /\ ~Exists(f, Suffixed(p, c))
        /\ \A d \in 1..(c - 1) : Exists(f, Suffixed(p, d))

\* resolve_collision(target_path) -> (new_path, was_renamed)
resolve_collision(f, p) ==
    IF ~Exists(f, p) THEN <<p, FALSE>>
    ELSE <<Suffixed(p, FirstFree(f, p)), TRUE>>

----------------------------------------------------------------------------
(* build_tree_from_nodes *)

Node(name, indent, is_dir) ==
    [name |-> name, indent |-> indent, is_dir |-> is_dir]

\* i == 0 and is_dir and name.lower() == root_dir_name.lower()
IsRootWrapCaseSensitive(k, node) ==
    k = 1 /\ node.is_dir /\ node.name = root_dir_name

IsRootWrap(k, node) ==
    k = 1 /\ node.is_dir /\ Lower(node.name) = Lower(root_dir_name)

\* while path_stack and path_stack[-1][0] >= indent: path_stack.pop()
RECURSIVE PopStack(_, _)
PopStackGt(stack, indent) ==
    LET RECURSIVE P(_)
        P(s) == IF s # <<>> /\ s[Len(s)][1] > indent
                THEN P(SubSeq(s, 1, Len(s) - 1)) ELSE s
    IN P(stack)

PopStackOnce(stack, indent) ==
    IF stack # <<>> /\ stack[Len(stack)][1] >= indent
    THEN SubSeq(stack, 1, Len(stack) - 1) ELSE stack

PopStack(stack, indent) ==
    IF stack # <<>> /\ stack[Len(stack)][1] >= indent
    THEN PopStack(SubSeq(stack, 1, Len(stack) - 1), indent)
    ELSE stack

\* current_parent = path_stack[-1][1] if path_stack else root_path
ParentOf(stack) == IF stack # <<>> THEN stack[Len(stack)][2] ELSE root_path

\* the branch the file arm takes: skip, move or scaffold
FileBranchNoSkip(f, name, target) ==
    IF Exists(f, <<name>>) /\ IsFile(f, <<name>>) THEN "move" ELSE "scaffold"

FileBranch(f, name, target) ==
    IF Exists(f, target) THEN "skip"
    ELSE IF Exists(f, <<name>>) /\ IsFile(f, <<name>>) THEN "move"
    ELSE "scaffold"

Entry(action, path) == [action |-> action, path |-> path]

Bump(s, key) == [s EXCEPT ![key] = @ + 1]

NoStats == [dirs |-> 0, files |-> 0, moved |-> 0, skipped |-> 0]

\* the node the loop takes next, its index from 1
Pending == i < Len(nodes)
Cur == nodes[i + 1]

\* the root-wrap arm: push (indent, root_path), log SKIP, continue
RootWrapStep ==
    /\ Pending
    /\ IsRootWrap(i + 1, Cur)
    /\ path_stack' = Append(path_stack, <<Cur.indent, root_path>>)
    /\ log' = Append(log, Entry("SKIP", <<Cur.name>>))
    /\ i' = i + 1
    /\ targets' = Append(targets, root_path)
    /\ UNCHANGED <<nodes, fs, stats, current_parent, target_path, run, pre, fs1>>
    /\ UNCHANGED <<parseVars, serVars>>

\* the directory arm: pop, resolve the parent, push, create when missing
DirStep ==
    /\ Pending
    /\ ~IsRootWrap(i + 1, Cur)
    /\ Cur.is_dir
    /\ LET stack  == PopStack(path_stack, Cur.indent)
           parent == ParentOf(stack)
           target == Join(parent, Cur.name)
       IN /\ current_parent' = parent
          /\ target_path' = target
          /\ targets' = Append(targets, target)
          /\ path_stack' = Append(stack, <<Cur.indent, target>>)
          /\ \/ /\ Exists(fs, target)
                /\ UNCHANGED <<fs, stats, log>>
             \/ /\ ~Exists(fs, target)
                /\ MakeDirsOk(fs, target)
                /\ fs' = MakeDirs(fs, target)
                /\ stats' = Bump(stats, "dirs")
                /\ log' = Append(log, Entry("DIR", target))
             \/ /\ ~Exists(fs, target)
                /\ log' = log \o <<Entry("DIR", target), Entry("ERR", target)>>
                /\ UNCHANGED <<fs, stats>>
    /\ i' = i + 1
    /\ UNCHANGED <<nodes, run, pre, fs1>>
    /\ UNCHANGED <<parseVars, serVars>>

\* the file arm, target exists: count it as skipped
FileSkipStep ==
    /\ Pending
    /\ ~IsRootWrap(i + 1, Cur)
    /\ ~Cur.is_dir
    /\ LET stack  == PopStack(path_stack, Cur.indent)
           parent == ParentOf(stack)
           target == Join(parent, Cur.name)
       IN /\ FileBranch(fs, Cur.name, target) = "skip"
          /\ current_parent' = parent
          /\ target_path' = target
          /\ targets' = Append(targets, target)
          /\ path_stack' = stack
          /\ stats' = Bump(stats, "skipped")
    /\ i' = i + 1
    /\ UNCHANGED <<nodes, fs, log, run, pre, fs1>>
    /\ UNCHANGED <<parseVars, serVars>>

\* the file arm, a loose file of that name in the working root: move it
FileMoveStep ==
    /\ Pending
    /\ ~IsRootWrap(i + 1, Cur)
    /\ ~Cur.is_dir
    /\ LET stack  == PopStack(path_stack, Cur.indent)
           parent == ParentOf(stack)
           target == Join(parent, Cur.name)
           res    == resolve_collision(fs, target)
           final  == res[1]
           first  == Entry(IF res[2] THEN "REN" ELSE "MOVE", final)
       IN /\ FileBranch(fs, Cur.name, target) = "move"
          /\ current_parent' = parent
          /\ target_path' = target
          /\ targets' = Append(targets, target)
          /\ path_stack' = stack
          /\ \/ /\ MoveOk(fs, <<Cur.name>>, final)
                /\ fs' = Move(fs, <<Cur.name>>, final)
                /\ stats' = Bump(stats, "moved")
                /\ log' = Append(log, first)
             \/ /\ log' = log \o <<first, Entry("ERR", final)>>
                /\ UNCHANGED <<fs, stats>>
    /\ i' = i + 1
    /\ UNCHANGED <<nodes, run, pre, fs1>>
    /\ UNCHANGED <<parseVars, serVars>>

\* the file arm, otherwise: scaffold a placeholder file
FileScaffoldStep ==
    /\ Pending
    /\ ~IsRootWrap(i + 1, Cur)
    /\ ~Cur.is_dir
    /\ LET stack  == PopStack(path_stack, Cur.indent)
           parent == ParentOf(stack)
           target == Join(parent, Cur.name)
           dir    == DirName(target)
           made   == IF Exists(fs, dir) THEN fs ELSE MakeDirs(fs, dir)
       IN /\ FileBranch(fs, Cur.name, target) = "scaffold"
          /\ current_parent' = parent
          /\ target_path' = target
          /\ targets' = Append(targets, target)
          /\ path_stack' = stack
          /\ \/ /\ Exists(fs, dir) \/ MakeDirsOk(fs, dir)
                /\ WriteOk(made, target)
                /\ fs' = Put(made, target, Placeholder(Cur.name))
                /\ stats' = Bump(stats, "files")
                /\ log' = Append(log, Entry("NEW", target))
             \/ /\ ~Exists(fs, dir)
                /\ log' = log \o <<Entry("NEW", target), Entry("ERR", target)>>
                /\ UNCHANGED <<fs, stats>>
             \/ /\ Exists(fs, dir) \/ MakeDirsOk(fs, dir)
                /\ fs' = made
                /\ log' = log \o <<Entry("NEW", target), Entry("ERR", target)>>
                /\ UNCHANGED stats
    /\ i' = i + 1
    /\ UNCHANGED <<nodes, run, pre, fs1>>
    /\ UNCHANGED <<parseVars, serVars>>

\* a [FAIL] line has been logged
Erred == \E k \in 1..Len(log) : log[k].action = "ERR"

\* the program is run again on the same structure file in the same directory,
\* after a first run that logged no failure
SecondRun ==
    /\ run = 1
    /\ ~Pending
    /\ ~Erred
    /\ run' = 2
    /\ fs1' = fs
    /\ path_stack' = <<>>
    /\ stats' = NoStats
    /\ i' = 0
    /\ targets' = <<>>
    /\ UNCHANGED <<nodes, fs, current_parent, target_path, log, pre>>
    /\ UNCHANGED <<parseVars, serVars>>

----------------------------------------------------------------------------
(* Text.  A string is a sequence of characters, a character a one-letter    *)
(* string; the box-drawing glyphs are written by their code points.         *)

TAB == "\t"
BoxV == "u2502"
BoxT == "u251c"
BoxL == "u2514"
BoxH == "u2500"

\* str.strip() and str.rstrip() without argument remove whitespace
Whitespace == {" ", TAB}

\* the characters of r'[\s│├└─|+\-\\t]': in a raw string \\ is a backslash
\* and the t after it is the letter t
PrefixClass == Whitespace \cup {BoxV, BoxT, BoxL, BoxH, "|", "+", "-", "\\", "t"}

\* the characters of r'[<>:"|?*]'
IllegalChars == {"<", ">", ":", "\"", "|", "?", "*"}

\* name.strip('*"`\'')
QuoteChars == {"*", "\"", "`", "'"}

\* name.lstrip('/\\'), name.endswith('/'), name.strip('/\\')
Separators == {"/", "\\"}

common_dirs ==
    { <<"s","r","c">>, <<"p","u","b","l","i","c">>, <<"a","s","s","e","t","s">>,
      <<"c","o","m","p","o","n","e","n","t","s">>, <<"b","i","n">>, <<"l","i","b">>,
      <<"t","e","s","t","s">>, <<"d","o","c","s">>, <<"c","o","n","f","i","g">>,
      <<"d","i","s","t">>, <<"b","u","i","l","d">>, <<"u","t","i","l","s">>,
      <<"s","t","y","l","e","s">> }

\* str.lower(), on the letters of the model's alphabet
LowerChar(c) == CASE c = "T" -> "t" [] c = "E" -> "e" [] OTHER -> c
LowerStr(s) == [k \in 1..Len(s) |-> LowerChar(s[k])]

\* the length of the longest leading run of s made of characters of class
RECURSIVE LeadLen(_, _)
LeadLen(s, class) ==
    IF s # <<>> /\ s[1] \in class THEN 1 + LeadLen(Tail(s), class) ELSE 0

\* the length of the longest trailing run of s made of characters of class
RECURSIVE TrailLen(_, _)
TrailLen(s, class) ==
    IF s # <<>> /\ s[Len(s)] \in class
    THEN 1 + TrailLen(SubSeq(s, 1, Len(s) - 1), class) ELSE 0

\* str.lstrip(chars), str.rstrip(chars), str.strip(chars)
LStripChars(s, class) == SubSeq(s, LeadLen(s, class) + 1, Len(s))
RStripChars(s, class) == SubSeq(s, 1, Len(s) - TrailLen(s, class))
StripChars(s, class) == RStripChars(LStripChars(s, class), class)

\* line.split('#')[0]
BeforeHash(s) == SubSeq(s, 1, LeadLen(s, {c \in {s[k] : k \in 1..Len(s)} : c # "#"}))

\* '..' in name
HasDotDot(s) == \E k \in 1..(Len(s) - 1) : s[k] = "." /\ s[k + 1] = "."

\* name.replace('..', ''): occurrences are taken left to right, not overlapping
RECURSIVE RemoveDotDot(_)
RemoveDotDot(s) ==
    IF Len(s) < 2 THEN s
    ELSE IF s[1] = "." /\ s[2] = "." THEN RemoveDotDot(SubSeq(s, 3, Len(s)))
    ELSE <<s[1]>> \o RemoveDotDot(Tail(s))

\* re.sub(r'[<>:"|?*]', '', name)
RemoveIllegal(s) == SelectSeq(s, LAMBDA c : c \notin IllegalChars)

\* sanitize_name
sanitize_name(name) ==
    StripChars(RemoveIllegal(IF HasDotDot(name) THEN RemoveDotDot(name) ELSE name),
               Whitespace)

\* len(prefix.replace('\t', '    '))
ExpandedLen(prefix) ==
    Len(prefix) + 3 * Cardinality({k \in 1..Len(prefix) : prefix[k] = TAB})

\* parse_line_content with the prefix made of the characters of class; the
\* result is (name, indent), the empty name standing for None
ParseWith(line, class) ==
    LET l      == RStripChars(BeforeHash(line), Whitespace)
        n      == LeadLen(l, class)
        prefix == SubSeq(l, 1, n)
        raw    == StripChars(SubSeq(l, n + 1, Len(l)), Whitespace)
    IN IF StripChars(l, Whitespace) = <<>> THEN << <<>>, 0 >>
       ELSE IF raw = <<>> THEN << <<>>, 0 >>
       ELSE <<raw, ExpandedLen(prefix)>>

parse_line_content(line) == ParseWith(line, PrefixClass)

\* identify_nodes, first loop: one line
ReadLine ==
    /\ lpos < Len(lines)
    /\ lpos' = lpos + 1
    /\ parsed' = parse_line_content(lines[lpos + 1])
    /\ LET name == sanitize_name(
                      LStripChars(StripChars(parsed'[1], QuoteChars), Separators))
       IN inodes' =
            IF parsed'[1] = <<>> \/ name = <<>> THEN inodes
            ELSE Append(inodes,
                        [name |-> name, indent |-> parsed'[2], is_dir |-> "None"])
    /\ UNCHANGED <<lines, tpos>>
    /\ UNCHANGED <<buildVars, serVars>>

\* the verdict of the rule chain for node k of ns
TypeOf(ns, k) ==
    LET name == ns[k].name
    IN IF name[Len(name)] \in Separators THEN TRUE
       ELSE IF "." \in {name[j] : j \in 1..Len(name)} /\ name[1] # "." THEN FALSE
       ELSE IF k + 1 <= Len(ns) /\ ns[k + 1].indent > ns[k].indent THEN TRUE
       ELSE LowerStr(name) \in common_dirs

\* identify_nodes, second loop: one node
TypeNode ==
    /\ lpos = Len(lines)
    /\ tpos < Len(inodes)
    /\ tpos' = tpos + 1
    /\ LET k    == tpos + 1
           name == inodes[k].name
       IN inodes' =
            [inodes EXCEPT ![k] =
                [name   |-> IF name[Len(name)] \in Separators
                            THEN StripChars(name, Separators) ELSE name,
                 indent |-> @.indent,
                 is_dir |-> TypeOf(inodes, k)]]
    /\ UNCHANGED <<lines, lpos, parsed>>
    /\ UNCHANGED <<buildVars, serVars>>

Alphabet == {" ", TAB, "-", "|", "t", "e", ".", "<", "/", "#", "\"", "\\"}

LinesUpTo(len) == UNION {[1..n -> Alphabet] : n \in 0..len}

\* a second line, for the rule that looks at the next node's indent
FollowLines == { <<"e">>, <<" ", " ", "e">> }

LineLists(len) ==
    {<<l>> : l \in LinesUpTo(len)}
        \cup {<<l, m>> : l \in LinesUpTo(len), m \in FollowLines}

ParseIdle ==
    /\ lines = <<>>
    /\ lpos = 0
    /\ parsed = << <<>>, 0 >>
    /\ inodes = <<>>
    /\ tpos = 0

----------------------------------------------------------------------------
(* generate_tree_string.  Entry names are plain strings here; a symbolic    *)
(* link holds the path, from the walked root, that it points to.            *)

Link(to) == [kind |-> "link", to |-> to]

SYSTEM_EXCLUDES ==
    {"directory-control.py", "__pycache__", ".git", ".venv", "venv",
     "node_modules", ".DS_Store", ".env", ".gitignore", "thumbs.db", ".idea",
     ".vscode"}

\* the entry names of the model, in the order sorted() gives them
SortedNames == <<".git", "a", "b", "venv">>

\* item.startswith('.')
StartsWithDot(item) == item \in {".git", ".venv", ".DS_Store", ".env", ".gitignore",
                                 ".idea", ".vscode"}

\* The path the operating system resolves p to, following symbolic links at
\* every component, or <<"ELOOP">> after more links than hops allows, or
\* <<"ENOENT">> when a component is missing or not a directory.
RECURSIVE ResolveFrom(_, _, _, _)
ResolveFrom(f, done, rest, hops) ==
    IF rest = <<>> THEN done
    ELSE LET q == Append(done, rest[1])
         IN IF q \notin DOMAIN f THEN <<"ENOENT">>
            ELSE IF f[q].kind = "link"
                 THEN IF hops = 0 THEN <<"ELOOP">>
                      ELSE ResolveFrom(f, <<>>, f[q].to \o Tail(rest), hops - 1)
            ELSE IF Tail(rest) # <<>> /\ f[q].kind # "dir" THEN <<"ENOENT">>
            ELSE ResolveFrom(f, q, Tail(rest), hops)

Resolve(f, p) == ResolveFrom(f, <<>>, p, Cardinality(DOMAIN f))

\* os.path.islink(p): p's directory is resolved, p's last component is not
IsLink(f, p) ==
    LET d == Resolve(f, DirName(p))
    IN Append(d, p[Len(p)]) \in DOMAIN f /\ f[Append(d, p[Len(p)])].kind = "link"

\* os.path.isdir(p): follows symbolic links
IsDirFollow(f, p) == IsDir(f, Resolve(f, p))

\* os.listdir(p) raises OSError
ListDirFails(f, no, p) == ~IsDirFollow(f, p) \/ Resolve(f, p) \in no

\* sorted(os.listdir(p))
ListDir(f, p) ==
    SelectSeq(SortedNames, LAMBDA item : Append(Resolve(f, p), item) \in DOMAIN f)

\* should_ignore(name, relative_path, ignore_patterns), for patterns that hold
\* no wildcard: a pattern is the path it spells
should_ignore(name, relative_path, patterns) ==
    \E pattern \in patterns : pattern = <<name>> \/ pattern = relative_path

\* the items the first loop of generate_tree_string keeps
Items(f, no, patterns, p) ==
    IF ListDirFails(f, no, p) THEN <<>>
    ELSE SelectSeq(ListDir(f, p),
                   LAMBDA item : /\ item \notin SYSTEM_EXCLUDES
                                 /\ ~StartsWithDot(item)
                                 /\ ~should_ignore(item, Append(p, item), patterns))

\* the arm the second loop takes for full_path
ItemKindDirFirst(f, full_path) ==
    IF IsDirFollow(f, full_path) THEN "dir"
    ELSE IF IsLink(f, full_path) THEN "link"
    ELSE "file"

ItemKind(f, full_path) ==
    IF IsLink(f, full_path) THEN "link"
    ELSE IF IsDirFollow(f, full_path) THEN "dir"
    ELSE "file"

ConnLast == <<BoxL, BoxH, BoxH, " ">>
ConnMid  == <<BoxT, BoxH, BoxH, " ">>
PadLast  == <<" ", " ", " ", " ">>
PadMid   == <<BoxV, " ", " ", " ">>

Frame(dir_path, prefix, items) ==
    [dir_path |-> dir_path, prefix |-> prefix, items |-> items, idx |-> 1]

\* a line of the output: prefix, connector, item and what follows the item
\* ("/" for a directory, " -> target" or " (link)" for a link); path is the
\* full_path the line was written for
OutLine(fr, kind, tail) ==
    [prefix    |-> fr.prefix,
     connector |-> IF fr.idx = Len(fr.items) THEN ConnLast ELSE ConnMid,
     item      |-> fr.items[fr.idx],
     kind      |-> kind,
     tail      |-> tail,
     path      |-> Append(fr.dir_path, fr.items[fr.idx])]

Top == frames[Len(frames)]
TopPath == Append(Top.dir_path, Top.items[Top.idx])
Advanced == [frames EXCEPT ![Len(frames)].idx = @ + 1]

\* generate_structure_file calls generate_tree_string(".")
SerStart ==
    /\ sphase = "idle"
    /\ sphase' = "walking"
    /\ frames' = <<Frame(root_path, <<>>, Items(sfs, denied, ignore_patterns, root_path))>>
    /\ UNCHANGED <<sfs, denied, ignore_patterns, output, sstats>>
    /\ UNCHANGED <<buildVars, parseVars>>

\* the symlink arm: one line, never a recursive call
LinkItem ==
    /\ sphase = "walking"
    /\ frames # <<>>
    /\ Top.idx <= Len(Top.items)
    /\ ItemKind(sfs, TopPath) = "link"
    /\ \/ /\ output' = Append(output, OutLine(Top, "link", <<"->", sfs[Append(Resolve(sfs, Top.dir_path), Top.items[Top.idx])].to>>))
          /\ sstats' = Bump(sstats, "files")
       \/ /\ output' = Append(output, OutLine(Top, "link", <<"(link)">>))
          /\ UNCHANGED sstats
    /\ frames' = Advanced
    /\ UNCHANGED <<sfs, denied, ignore_patterns, sphase>>
    /\ UNCHANGED <<buildVars, parseVars>>

\* the directory arm: one line, then the recursive call
DirItem ==
    /\ sphase = "walking"
    /\ frames # <<>>
    /\ Top.idx <= Len(Top.items)
    /\ ItemKind(sfs, TopPath) = "dir"
    /\ Len(frames) < MaxDepth
    /\ sstats' = Bump(sstats, "dirs")
    /\ output' = Append(output, OutLine(Top, "dir", <<"/">>))
    /\ frames' = Append(Advanced,
                        Frame(TopPath,
                              Top.prefix \o (IF Top.idx = Len(Top.items)
                                             THEN PadLast ELSE PadMid),
                              Items(sfs, denied, ignore_patterns, TopPath)))
    /\ UNCHANGED <<sfs, denied, ignore_patterns, sphase>>
    /\ UNCHANGED <<buildVars, parseVars>>

\* the plain-file arm
FileItem ==
    /\ sphase = "walking"
    /\ frames # <<>>
    /\ Top.idx <= Len(Top.items)
    /\ ItemKind(sfs, TopPath) = "file"
    /\ sstats' = Bump(sstats, "files")
    /\ output' = Append(output, OutLine(Top, "file", <<>>))
    /\ frames' = Advanced
    /\ UNCHANGED <<sfs, denied, ignore_patterns, sphase>>
    /\ UNCHANGED <<buildVars, parseVars>>

\* return output, stats
SerReturn ==
    /\ sphase = "walking"
    /\ frames # <<>>
    /\ Top.idx > Len(Top.items)
    /\ frames' = SubSeq(frames, 1, Len(frames) - 1)
    /\ sphase' = IF Len(frames) = 1 THEN "done" ELSE "walking"
    /\ UNCHANGED <<sfs, denied, ignore_patterns, output, sstats>>
    /\ UNCHANGED <<buildVars, parseVars>>

\* where a link of the model can point: the root, a, b, a/a, nothing
LinkTargets == {root_path, <<"a">>, <<"b">>, <<"a", "a">>, <<"gone">>}

\* what a path can hold besides a directory with entries
Leaves == {File(<<"data">>), Dir} \cup {Link(t) : t \in LinkTargets}

NoEntries == [p \in {} |-> Dir]

\* the entries of directory d for each choice of what its names a and b hold
Under(d, pick) ==
    [p \in {Append(d, n) : n \in DOMAIN pick} |-> pick[p[Len(p)]]]

Merge(f, g) == [p \in DOMAIN f \cup DOMAIN g |-> IF p \in DOMAIN f THEN f[p] ELSE g[p]]

Missing == [kind |-> "none"]

Picks == [{"a", "b"} -> Leaves \cup {Missing}]

Present(pick) == [n \in {m \in DOMAIN pick : pick[m].kind # "none"} |-> pick[n]]

\* the trees walked: a and b in the root, each a file, a directory, a link or
\* missing; entries a and b inside a when a is a directory; venv and .git
SerTrees ==
    {Merge(Under(root_path, Present(top)),
           Merge(IF top["a"].kind = "dir" THEN Under(<<"a">>, Present(sub)) ELSE NoEntries,
                 Under(root_path, [n \in hidden |-> Dir]))) :
        top \in Picks, sub \in Picks, hidden \in SUBSET {"venv", ".git"}}

SerIdle ==
    /\ sfs = NoEntries
    /\ denied = {}
    /\ ignore_patterns = {}
    /\ frames = <<>>
    /\ output = <<>>
    /\ sstats = [files |-> 0, dirs |-> 0]
    /\ sphase = "idle"

----------------------------------------------------------------------------
(* The node lists and the filesystems the runs start from *)

Indents == {0, 2, 3}

NodeChoices ==
    {Node(c[1], ind, c[2]) :
        c \in {<<ReportTxt, FALSE>>, <<Src, TRUE>>, <<ProjCap, TRUE>>},
        ind \in Indents}

\* indents [0,2,2,4,2,0] typed directory, file, directory, file, file, directory
DepthExample ==
    << Node(Nm("lib", ""), 0, TRUE),   Node(Nm("a", ".txt"), 2, FALSE),
       Node(Nm("docs", ""), 2, TRUE),  Node(Nm("b", ".txt"), 4, FALSE),
       Node(Nm("c", ".txt"), 2, FALSE), Node(Nm("tests", ""), 0, TRUE) >>

NodeLists ==
    UNION {[1..n -> NodeChoices] : n \in 1..MaxNodes} \cup {DepthExample}

Orig(p) == File(<<"orig", p>>)

\* before the first run: report.txt loose in the root or not; src missing, a
\* file, an empty directory, or a directory holding a report.txt
NoFiles == [p \in {} |-> Dir]

LooseStates == {NoFiles, <<ReportTxt>> :> Orig(<<ReportTxt>>)}

SrcStates ==
    { NoFiles,
      <<Src>> :> Orig(<<Src>>),
      <<Src>> :> Dir,
      (<<Src>> :> Dir) @@ (<<Src, ReportTxt>> :> Orig(<<Src, ReportTxt>>)) }

StartFS == {[p \in DOMAIN a \cup DOMAIN b |-> IF p \in DOMAIN a THEN a[p] ELSE b[p]] :
               a \in LooseStates, b \in SrcStates}

BuildIdle ==
    /\ nodes = <<>>
    /\ fs = NoFiles
    /\ pre = NoFiles
    /\ fs1 = NoFiles
    /\ path_stack = <<>>
    /\ stats = NoStats
    /\ i = 0
    /\ current_parent = root_path
    /\ target_path = root_path
    /\ targets = <<>>
    /\ log = <<>>
    /\ run = 2

InitBuild ==
    /\ nodes \in NodeLists
    /\ fs \in StartFS
    /\ pre = fs
    /\ fs1 = fs
    /\ path_stack = <<>>
    /\ stats = NoStats
    /\ i = 0
    /\ current_parent = root_path
    /\ target_path = root_path
    /\ targets = <<>>
    /\ log = <<>>
    /\ run = 1
    /\ ParseIdle
    /\ SerIdle

NextBuild ==
    \/ RootWrapStep
    \/ DirStep
    \/ FileSkipStep
    \/ FileMoveStep
    \/ FileScaffoldStep
    \/ SecondRun

SpecBuild == InitBuild /\ [][NextBuild]_vars

InitParse ==
    /\ lines \in LineLists(MaxLineLen)
    /\ lpos = 0
    /\ parsed = << <<>>, 0 >>
    /\ inodes = <<>>
    /\ tpos = 0
    /\ BuildIdle
    /\ SerIdle

NextParse ==
    \/ ReadLine
    \/ TypeNode

SpecParse == InitParse /\ [][NextParse]_vars

InitSer ==
    /\ sfs \in SerTrees
    /\ denied \in {{}, {<<"a">>}}
    /\ ignore_patterns \in {{}, {<<"b">>}, {<<"a", "b">>}}
    /\ frames = <<>>
    /\ output = <<>>
    /\ sstats = [files |-> 0, dirs |-> 0]
    /\ sphase = "idle"
    /\ BuildIdle
    /\ ParseIdle

NextSer ==
    \/ SerStart
    \/ LinkItem
    \/ DirItem
    \/ FileItem
    \/ SerReturn

SpecSer == InitSer /\ [][NextSer]_vars

\* the walk is one synchronous call: it runs until it returns
SpecSerFair == SpecSer /\ WF_vars(NextSer)


----------------------------------------------------------------------------
(* Properties of build_tree_from_nodes *)

FilesOf(f) == {p \in DOMAIN f : f[p].kind = "file"}

\* the file at p in f is at p in g, the same
Kept(f, g, p) == p \in DOMAIN g /\ g[p] = f[p]

\* the file at p in f is gone from p in g and is at one path of g that did
\* not exist in f, the only path the step added
MovedFresh(f, g, p) ==
    /\ p \notin DOMAIN g
    /\ \E q \in DOMAIN g \ DOMAIN f :
          /\ g[q] = f[p]
          /\ DOMAIN g \ DOMAIN f = {q}

\* the paths of g that hold entry e
Holders(g, e) == {q \in DOMAIN g : g[q] = e}

\* the first node is a directory named, up to case, like the working root
WrapperFirst ==
    nodes[1].is_dir /\ Lower(nodes[1].name) = Lower(root_dir_name)

\* The parent the depth rule gives node k of ns: the latest earlier directory
\* j of smaller indent with only deeper nodes between j and k; 0 for none.
SpecParentIdx(ns, k) ==
    LET J == {j \in 1..(k - 1) :
                /\ ns[j].is_dir
                /\ ns[j].indent < ns[k].indent
                /\ \A m \in (j + 1)..(k - 1) : ns[m].indent > ns[j].indent}
    IN IF J = {} THEN 0 ELSE CHOOSE j \in J : \A h \in J : h <= j

RECURSIVE SpecTarget(_, _)
SpecParent(ns, k) ==
    IF SpecParentIdx(ns, k) = 0 THEN root_path
    ELSE SpecTarget(ns, SpecParentIdx(ns, k))

SpecTarget(ns, k) == Join(SpecParent(ns, k), ns[k].name)

StrictlyIncreasing(stack) ==
    \A a, b \in 1..Len(stack) : a < b => stack[a][1] < stack[b][1]

\* the stack as the pop loop left it for the last node
AfterPop ==
    IF nodes[i].is_dir THEN SubSeq(path_stack, 1, Len(path_stack) - 1)
    ELSE path_stack

\* C1: every regular file that existed before the first run is, after any
\* number of steps, either at its path unchanged or at exactly one path that
\* did not exist before; and every single step keeps every file it finds, in
\* place or moved to a path that did not exist when the step began.
C1_NoFileDestroyed ==
    /\ [](\A p \in FilesOf(pre) :
             \E q \in DOMAIN fs :
                /\ Holders(fs, pre[p]) = {q}
                /\ (q = p \/ q \notin DOMAIN pre))
    /\ [][\A p \in FilesOf(fs) : Kept(fs, fs', p) \/ MovedFresh(fs, fs', p)]_vars

\* a pre-existing loose file has been adopted and another target was skipped
C1_Witness ==
    /\ stats.moved = 1
    /\ stats.skipped >= 1
    /\ \E p \in FilesOf(pre) : Holders(fs, pre[p]) # {p}

\* C2: when the first run has completed, every file node whose target path
\* was a regular file before the run still has that file, unchanged, at that
\* target path.
C2_TargetFileKept ==
    (run = 1 /\ ~Pending) =>
        \A k \in 1..Len(nodes) :
            (~nodes[k].is_dir /\ IsFile(pre, targets[k])) =>
                Kept(pre, fs, targets[k])

\* C3: a second run over the same list, with no filesystem error in either
\* run, creates no directory, scaffolds no file, moves no file and leaves the
\* filesystem as the first run left it.
C3_SecondRunIdle ==
    (run = 2 /\ ~Erred) =>
        /\ stats.dirs = 0
        /\ stats.files = 0
        /\ stats.moved = 0
        /\ fs = fs1

\* C5: without a root-wrap first node, the parent path resolved for each node
\* is the target path of the latest earlier directory of smaller indent with
\* only deeper nodes in between, and the working root when there is none; for
\* indents [0,2,2,4,2,0] the indent-4 file lands in the directory at index 2,
\* the second indent-2 file in the first directory, the last node in the root.
C5_DepthReconstruction ==
    /\ (i >= 1 /\ ~WrapperFirst) =>
          /\ current_parent = SpecParent(nodes, i)
          /\ target_path = SpecTarget(nodes, i)
    /\ (nodes = DepthExample /\ i = 4) =>
          target_path = <<Nm("lib", ""), Nm("docs", ""), Nm("b", ".txt")>>
    /\ (nodes = DepthExample /\ i = 5) =>
          target_path = <<Nm("lib", ""), Nm("c", ".txt")>>
    /\ (nodes = DepthExample /\ i = 6) =>
          target_path = <<Nm("tests", "")>>

\* the example list has been processed to its last node
C5_Witness ==
    /\ nodes = DepthExample
    /\ i = 6
    /\ run = 1
    /\ IsFile(fs, <<Nm("lib", ""), Nm("docs", ""), Nm("b", ".txt")>>)

\* C6: a step on a file node whose target exists, with N the first counter
\* whose suffixed name is free beside it, leaves a new file at the name with
\* suffix N and changes none of the files that existed.
C6_CollisionSuffix ==
    [][(i' = i + 1 /\ ~nodes[i'].is_dir /\ IsFile(fs, target_path')) =>
          /\ IsFile(fs', Suffixed(target_path', FirstFree(fs, target_path')))
          /\ \A k \in 0..(FirstFree(fs, target_path') - 1) :
                LET q == IF k = 0 THEN target_path'
                         ELSE Suffixed(target_path', k)
                IN Kept(fs, fs', q)]_vars

\* the wrapper's own step: nothing changes on disk, nothing is counted, the
\* wrapper is mapped to the working root
WrapperElided ==
    (WrapperFirst /\ i = 1) =>
        /\ fs = (IF run = 1 THEN pre ELSE fs1)
        /\ stats = NoStats
        /\ path_stack = << <<nodes[1].indent, root_path>> >>

\* a directory node named like the root at a later index is handled as any
\* directory: pushed with its own path and, absent an error, present on disk
LaterNamesakeKept ==
    (i >= 2 /\ nodes[i].is_dir /\ Lower(nodes[i].name) = Lower(root_dir_name)) =>
        /\ target_path = Join(current_parent, nodes[i].name)
        /\ path_stack # <<>>
        /\ path_stack[Len(path_stack)] = <<nodes[i].indent, target_path>>
        /\ (~Erred => Exists(fs, target_path))

\* C7 as claimed: with a wrapper first node, its step changes nothing on disk
\* and maps it to the working root; every later node whose parent by the
\* depth rule is the wrapper, and every later node no deeper than the
\* wrapper, gets the working root as parent; a later directory named like the
\* root is not elided.
C7_RootWrapAsClaimed ==
    /\ WrapperElided
    /\ (WrapperFirst /\ i >= 2
          /\ (nodes[i].indent <= nodes[1].indent \/ SpecParentIdx(nodes, i) = 1)) =>
          current_parent = root_path
    /\ LaterNamesakeKept

\* C7 amended: as claimed, except that a later node gets the working root as
\* parent when its parent by the depth rule is the wrapper or when the depth
\* rule gives it no parent at all; a later node no deeper than the wrapper
\* that follows a directory of still smaller indent gets that directory.
C7_RootWrap ==
    /\ WrapperElided
    /\ (WrapperFirst /\ i >= 2) =>
          current_parent =
             IF SpecParentIdx(nodes, i) \in {0, 1} THEN root_path
             ELSE targets[SpecParentIdx(nodes, i)]
    /\ LaterNamesakeKept

\* a wrapper first node, a child of it, then a directory with the root's name
\* that was created inside the working root
C7_Witness ==
    /\ run = 1
    /\ WrapperFirst
    /\ i = 3
    /\ nodes[2].indent > nodes[1].indent
    /\ nodes[3].name = ProjCap
    /\ current_parent = root_path
    /\ IsDir(fs, <<ProjCap>>)
    /\ stats.dirs = 1

\* C10: the indents of path_stack increase strictly from bottom to top; after
\* the pop loop for a node every entry left has a smaller indent than that
\* node; every entry was pushed for a directory node.
C10_StackInvariant ==
    /\ StrictlyIncreasing(path_stack)
    /\ (i >= 1 /\ ~(i = 1 /\ WrapperFirst)) =>
          \A a \in 1..Len(AfterPop) : AfterPop[a][1] < nodes[i].indent
    /\ \A a \in 1..Len(path_stack) :
          \E k \in 1..i :
             /\ nodes[k].is_dir
             /\ nodes[k].indent = path_stack[a][1]
             /\ path_stack[a][2] = targets[k]
    /\ (i >= 1 /\ ~nodes[i].is_dir) =>
          (path_stack = <<>> \/ path_stack[Len(path_stack)][2] # target_path)

\* a wrapper first node, a stack of two entries and a failed creation
C10_Witness ==
    /\ WrapperFirst
    /\ Len(path_stack) = 2
    /\ Erred
    /\ i = 3

----------------------------------------------------------------------------
(* Properties of parse_line_content, sanitize_name and identify_nodes *)

\* whitespace and the tree-drawing glyphs: vertical bars, corner connectors,
\* dashes, plus signs
GlyphClass == Whitespace \cup {BoxV, BoxT, BoxL, BoxH, "|", "+", "-"}

Letters == {"t", "e"}

\* C4: no node name of identify_nodes holds the sequence '..' or one of the
\* characters < > : " | ? *
C4_NamesSanitized ==
    \A k \in 1..Len(inodes) :
        /\ ~HasDotDot(inodes[k].name)
        /\ \A j \in 1..Len(inodes[k].name) : inodes[k].name[j] \notin IllegalChars

\* C9: the prefix parse_line_content takes is the longest leading run of
\* whitespace and tree-drawing glyphs, the name is the rest, trimmed, and the
\* indent the prefix length with a tab counted as 4; a line that begins with
\* a letter is returned whole with indent 0.
C9_LineClassification ==
    lpos >= 1 =>
        /\ parsed = ParseWith(lines[lpos], GlyphClass)
        /\ (lines[lpos] # <<>> /\ lines[lpos][1] \in Letters) =>
              /\ parsed[2] = 0
              /\ parsed[1][1] = lines[lpos][1]

----------------------------------------------------------------------------
(* Properties of generate_tree_string *)

\* every component of p is a directory of f itself, not a link to one
RealDirPath(f, p) ==
    \A k \in 1..Len(p) :
        SubSeq(p, 1, k) \in DOMAIN f /\ f[SubSeq(p, 1, k)].kind = "dir"

\* the entry at p is listed by a walk that enters directories only: its name
\* is not filtered out and its directory is a listed, readable directory
RECURSIVE Listed(_)
Listed(p) ==
    /\ p \in DOMAIN sfs
    /\ p[Len(p)] \notin SYSTEM_EXCLUDES
    /\ ~StartsWithDot(p[Len(p)])
    /\ ~should_ignore(p[Len(p)], p, ignore_patterns)
    /\ DirName(p) \notin denied
    /\ \/ Len(p) = 1
       \/ sfs[DirName(p)].kind = "dir" /\ Listed(DirName(p))

LinesFor(p) == {k \in 1..Len(output) : output[k].path = p}

SymlinkLeaves ==
    /\ \A k \in 1..Len(frames) : RealDirPath(sfs, frames[k].dir_path)
    /\ \A k \in 1..Len(output) :
          /\ output[k].path \in DOMAIN sfs
          /\ RealDirPath(sfs, DirName(output[k].path))
          /\ (sfs[output[k].path].kind = "link") = (output[k].kind = "link")
          /\ Cardinality(LinesFor(output[k].path)) = 1
    /\ sphase = "done" =>
          \A p \in DOMAIN sfs :
             (sfs[p].kind = "link" /\ Listed(p)) => Cardinality(LinesFor(p)) = 1

\* C8: generate_tree_string is only ever active on real directories; every
\* line is for an entry reached through real directories alone; a symbolic
\* link that is listed gets exactly one line, a leaf; and the walk ends.
C8_SymlinkLeaf == []SymlinkLeaves /\ <>(sphase = "done")

\* the walk has ended over a tree where a/a points back to a, b to itself
C8_Witness ==
    /\ sphase = "done"
    /\ <<"a", "a">> \in DOMAIN sfs
    /\ sfs[<<"a", "a">>] = Link(<<"a">>)
    /\ <<"b">> \in DOMAIN sfs
    /\ sfs[<<"b">>] = Link(<<"b">>)
    /\ LinesFor(<<"a", "a">>) # {}
    /\ LinesFor(<<"b">>) # {}

====
